---- MODULE Spec2Model ----
(***************************************************************************)
(* A model of cryptocom/api.py: the CryptoComApi client.  The client signs *)
(* a request (_sign), wraps it in the envelope of its API version (_post), *)
(* throttles and sends it and normalises the answer (_request); the facade *)
(* methods build the parameters of each endpoint.                          *)
(*                                                                         *)
(* Python values are tagged records, one field name per type, so that any  *)
(* two values can be compared.  A string is the sequence of its pieces:    *)
(* dictionary keys and decimal digits are split into characters (so that   *)
(* keys sort as Python sorts them), other texts are one piece.  A digest   *)
(* is the record of what was hashed (no two inputs collide).               *)
(***************************************************************************)
EXTENDS Integers, Sequences, FiniteSets, TLC

VARIABLES
    given,          \* the key and secret the constructor was called with
    version,        \* self.version: "v1" or "v2"
    key,            \* self.__key
    secret,         \* self.__secret
    public_only,    \* self.__public_only
    last_api_call,  \* self.__last_api_call
    response,       \* self.response
    error,          \* self.error
    now,            \* the clock current_timestamp() reads, in ms
    pc,             \* per caller: where its facade call stands
    call,           \* per caller: the facade method it called
    req,            \* per caller: _request's arguments (path, param, method)
    r,              \* per caller: the response the transport gave it
    delay,          \* per caller: delay_for_ms of its _request
    wake,           \* per caller: the time its sleep() ends at the earliest
    ret,            \* per caller: the value its call returned
    raised,         \* per caller: whether its call ended in an exception
    stamps,         \* per caller: writes of __last_api_call by its _request
    sends,          \* per caller: HTTP requests its call has issued
    sent,           \* the transport's log: one entry per HTTP request issued
    sign_in,        \* arguments handed to _sign on its own
    sign_out        \* what _sign returned for them

vars == <<given, version, key, secret, public_only, last_api_call, response,
          error, now, pc, call, req, r, delay, wake, ret, raised, stamps,
          sends, sent, sign_in, sign_out>>

client == <<given, version, key, secret, public_only>>
fields == <<last_api_call, response, error>>
callers == <<pc, call, req, r, delay, wake, ret, raised, stamps, sends>>
signing == <<sign_in, sign_out>>

-----------------------------------------------------------------------------
(* Bounds of the model *)

\* Callers (threads) that may use the one client at the same time.
NCallers == 2
\* The clock at construction, standing for a time since the epoch.
StartTime == 1000
\* How far the clock runs.
MaxElapsed == 230
\* The short step of the clock (the long one is the spacing itself).
TickShort == 40
\* HTTP requests sent before the callers stop calling.
MaxRequests == 3
\* Entries of a dictionary handed to _sign on its own.
MaxParams == 3

-----------------------------------------------------------------------------
(* Python values *)

None == [none |-> TRUE]
PyInt(n) == [int |-> n]
PyS(s) == [str |-> s]

IsNone(v) == "none" \in DOMAIN v
IsInt(v) == "int" \in DOMAIN v
IsStr(v) == "str" \in DOMAIN v

\* bool(v) for None, an int or a str.
Truthy(v) ==
    IF IsNone(v) THEN FALSE
    ELSE IF IsInt(v) THEN v.int # 0
    ELSE v.str # <<>>

\* The characters of keys and numbers, in code point order.
Alphabet ==
    <<"-", "0", "1", "2", "3", "4", "5", "6", "7", "8", "9",
      "A", "B", "C", "D", "E", "F", "G", "H", "I", "J", "K", "L", "M",
      "N", "O", "P", "Q", "R", "S", "T", "U", "V", "W", "X", "Y", "Z", "_",
      "a", "b", "c", "d", "e", "f", "g", "h", "i", "j", "k", "l", "m",
      "n", "o", "p", "q", "r", "s", "t", "u", "v", "w", "x", "y", "z">>

Ord(c) == CHOOSE i \in 1..Len(Alphabet) : Alphabet[i] = c

\* a < b for two strs of characters, as Python compares them.
StrLess(a, b) ==
    \E i \in 1..(Len(a) + 1) :
        /\ i <= Len(b)
        /\ \A j \in 1..(i - 1) : a[j] = b[j]
        /\ \/ i = Len(a) + 1
           \/ Ord(a[i]) < Ord(b[i])

RECURSIVE Digits(_)
Digits(n) ==
    IF n < 10 THEN <<Alphabet[n + 2]>>
    ELSE Digits(n \div 10) \o <<Alphabet[(n % 10) + 2]>>

\* str(v)
str(v) ==
    IF IsNone(v) THEN <<"N", "o", "n", "e">>
    ELSE IF IsInt(v) THEN (IF v.int < 0 THEN <<"-">> \o Digits(-v.int)
                           ELSE Digits(v.int))
    ELSE v.str

-----------------------------------------------------------------------------
(* Dictionaries: the entries <<key, value>> in insertion order *)

Keys(d) == [i \in 1..Len(d) |-> d[i][1]]
HasKey(d, k) == \E i \in 1..Len(d) : d[i][1] = k
Get(d, k) == d[CHOOSE i \in 1..Len(d) : d[i][1] = k][2]

\* d[k] = v
Put(d, k, v) ==
    IF HasKey(d, k)
    THEN [i \in 1..Len(d) |-> IF d[i][1] = k THEN <<k, v>> ELSE d[i]]
    ELSE Append(d, <<k, v>>)

\* sorted(ks) for a sequence of distinct strs
RECURSIVE sorted(_)
sorted(ks) ==
    IF ks = <<>> THEN <<>>
    ELSE LET m == CHOOSE i \in 1..Len(ks) :
                      \A j \in 1..Len(ks) : j = i \/ StrLess(ks[i], ks[j])
             rest == [j \in 1..(Len(ks) - 1) |-> IF j < m THEN ks[j] ELSE ks[j + 1]]
         IN  <<ks[m]>> \o sorted(rest)

-----------------------------------------------------------------------------
(* _sign *)

V1 == "v1"
V2 == "v2"

\* The loop of _sign: key + str(params[key]) for each key of ks in turn.
RECURSIVE Concatenate(_, _)
Concatenate(params, ks) ==
    IF ks = <<>> THEN <<>>
    ELSE ks[1] \o str(Get(params, ks[1])) \o Concatenate(params, Tail(ks))

\* KeyOrder with the sort left out: the keys as the dictionary holds them.
KeyOrderUnsorted(params) == Keys(params)

\* The order _sign visits the keys in.
KeyOrder(params) == sorted(Keys(params))

_sign(params, method, id, nonce) ==
    LET to_sign == Concatenate(params, KeyOrder(params))
    IN  IF version = V1
        THEN [sha256 |-> to_sign \o str(secret)]
        ELSE [hmac_key |-> str(secret),
              hmac_msg |-> method
                           \o (IF Truthy(id) THEN str(id) ELSE <<>>)
                           \o key.str
                           \o to_sign
                           \o str(nonce)]

-----------------------------------------------------------------------------
(* JSON values, and what _request does with a decoded body *)

\* The keys a decoded body or self.error may hold.
ObjKeys == {"code", "msg", "message", "data", "result", "http_code", "exception"}

Absent == [absent |-> TRUE]          \* the key is not in the dict
Raised == [exc |-> TRUE]             \* the expression raised an exception
Lit(s) == [lit |-> s]                \* a non-empty dict or list, left undecoded
EmptyList == [list |-> <<>>]

\* The dict holding the entries of the record rec.
Obj(rec) == [obj |-> [k \in ObjKeys |-> IF k \in DOMAIN rec THEN rec[k] ELSE Absent]]
EmptyDict == [obj |-> [k \in ObjKeys |-> Absent]]

IsObj(v) == "obj" \in DOMAIN v
IsRaised(v) == "exc" \in DOMAIN v
Has(v, k) == IsObj(v) /\ v.obj[k] # Absent

\* bool(v) for any value
Bool(v) ==
    IF "none" \in DOMAIN v THEN FALSE
    ELSE IF "int" \in DOMAIN v THEN v.int # 0
    ELSE IF "str" \in DOMAIN v THEN v.str # <<>>
    ELSE IF "list" \in DOMAIN v THEN v.list # <<>>
    ELSE IF "obj" \in DOMAIN v THEN \E k \in ObjKeys : v.obj[k] # Absent
    ELSE TRUE

\* v[k]: KeyError for a dict without k, TypeError for what is no dict.
Subscript(v, k) == IF Has(v, k) THEN v.obj[k] ELSE Raised

IsDigit(c) == c \in {Alphabet[i] : i \in 2..11}

RECURSIVE Number(_)
Number(s) ==
    IF Len(s) = 1 THEN Ord(s[1]) - 2
    ELSE 10 * Number(SubSeq(s, 1, Len(s) - 1)) + Ord(s[Len(s)]) - 2

\* int(v): the number itself, the number a str of digits spells, ValueError
\* for another str, TypeError for None, a dict or a list.
int(v) ==
    IF "int" \in DOMAIN v THEN v
    ELSE IF "str" \in DOMAIN v /\ v.str # <<>> /\ \A i \in 1..Len(v.str) : IsDigit(v.str[i])
         THEN PyInt(Number(v.str))
    ELSE Raised

response_code(ver) == "code"
response_message(ver) == IF ver = V1 THEN "msg" ELSE "message"
response_result(ver) == IF ver = V1 THEN "data" ELSE "result"

\* self.response and self.response[field], for self.response = resp
get_code(resp) == IF Bool(resp) THEN Subscript(resp, response_code(version)) ELSE resp
get_message(resp) == IF Bool(resp) THEN Subscript(resp, response_message(version)) ELSE resp
get_result(resp) == IF Bool(resp) THEN Subscript(resp, response_result(version)) ELSE resp

\* The bodies the exchange answers with.
Texts ==
    { "{\"code\":0,\"data\":{\"x\":1}}",
      "{\"code\":0,\"result\":{\"x\":1}}",
      "{\"code\":0,\"data\":0,\"result\":[]}",
      "{\"code\":0}",
      "{\"code\":\"NO_SIGNATURE\"}",
      "{\"code\":10004,\"msg\":\"bad\",\"message\":\"bad\"}",
      "{\"code\":10004}",
      "{\"http_code\":999}",
      "{}",
      "0",
      "<html>" }

\* r.json() for a response of body text: the decoded value, or an exception.
json(text) ==
    CASE text = "{\"code\":0,\"data\":{\"x\":1}}" ->
             Obj([code |-> PyInt(0), data |-> Lit("{\"x\":1}")])
      [] text = "{\"code\":0,\"result\":{\"x\":1}}" ->
             Obj([code |-> PyInt(0), result |-> Lit("{\"x\":1}")])
      [] text = "{\"code\":0,\"data\":0,\"result\":[]}" ->
             Obj([code |-> PyInt(0), data |-> PyInt(0), result |-> EmptyList])
      [] text = "{\"code\":0}" ->
             Obj([code |-> PyInt(0)])
      [] text = "{\"code\":\"NO_SIGNATURE\"}" ->
             Obj([code |-> PyS(<<"NO_SIGNATURE">>)])
      [] text = "{\"code\":10004,\"msg\":\"bad\",\"message\":\"bad\"}" ->
             Obj([code |-> PyInt(10004), msg |-> PyS(<<"bad">>), message |-> PyS(<<"bad">>)])
      [] text = "{\"code\":10004}" ->
             Obj([code |-> PyInt(10004)])
      [] text = "{\"http_code\":999}" ->
             Obj([http_code |-> PyInt(999)])
      [] text = "{}" ->
             EmptyDict
      [] text = "0" ->
             PyInt(0)
      [] OTHER -> Raised

\* d.update(v) inside try/except: the entries of a dict v replace d's, and
\* anything else leaves d as it is.
Update(d, v) ==
    IF IsObj(v)
    THEN [obj |-> [k \in ObjKeys |-> IF v.obj[k] # Absent THEN v.obj[k] ELSE d.obj[k]]]
    ELSE d

\* What the handler of line 148 leaves: the body's text as the error.
Caught(resp, text) ==
    [response |-> resp, error |-> Obj([exception |-> PyS(<<text>>)]), ret |-> EmptyDict]

\* Lines 141 to 147, once self.response is resp: the logging of line 144
\* evaluates get_message() whatever the log level.
Decoded200(resp, text) ==
    LET code == int(get_code(resp))
    IN  IF IsRaised(code) THEN Caught(resp, text)
        ELSE IF code.int # 0
             THEN IF IsRaised(get_message(resp)) THEN Caught(resp, text)
                  ELSE [response |-> resp, error |-> resp, ret |-> EmptyDict]
        ELSE IF IsRaised(get_result(resp)) THEN Caught(resp, text)
        ELSE [response |-> resp, error |-> None, ret |-> get_result(resp)]

\* Lines 129 to 151 for an answer a = [status_code, text], self.error being
\* None (line 106) and self.response being old: the new fields and the value
\* returned.
Normalize(a, old) ==
    IF a.status_code # 200
    THEN [response |-> old,
          error |-> Update(Obj([http_code |-> PyInt(a.status_code)]), json(a.text)),
          ret |-> EmptyDict]
    ELSE IF IsRaised(json(a.text)) THEN Caught(old, a.text)
    ELSE Decoded200(json(a.text), a.text)

-----------------------------------------------------------------------------
(* The facade: what each method hands to _request or _post *)

k_symbol == <<"s", "y", "m", "b", "o", "l">>
k_instrument_name == <<"i", "n", "s", "t", "r", "u", "m", "e", "n", "t", "_", "n", "a", "m", "e">>
k_period == <<"p", "e", "r", "i", "o", "d">>
k_type == <<"t", "y", "p", "e">>
k_depth == <<"d", "e", "p", "t", "h">>
k_currency == <<"c", "u", "r", "r", "e", "n", "c", "y">>
k_side == <<"s", "i", "d", "e">>
k_volume == <<"v", "o", "l", "u", "m", "e">>
k_price == <<"p", "r", "i", "c", "e">>
k_quantity == <<"q", "u", "a", "n", "t", "i", "t", "y">>
k_notional == <<"n", "o", "t", "i", "o", "n", "a", "l">>
k_client_oid == <<"c", "l", "i", "e", "n", "t", "_", "o", "i", "d">>
k_fee_coin == <<"f", "e", "e", "_", "i", "s", "_", "u", "s", "e", "r", "_",
                "e", "x", "c", "h", "a", "n", "g", "e", "_", "c", "o", "i", "n">>
k_order_id == <<"o", "r", "d", "e", "r", "_", "i", "d">>
k_pageSize == <<"p", "a", "g", "e", "S", "i", "z", "e">>
k_page_size == <<"p", "a", "g", "e", "_", "s", "i", "z", "e">>
k_page == <<"p", "a", "g", "e">>
k_startDate == <<"s", "t", "a", "r", "t", "D", "a", "t", "e">>
k_start_ts == <<"s", "t", "a", "r", "t", "_", "t", "s">>
k_endDate == <<"e", "n", "d", "D", "a", "t", "e">>
k_end_ts == <<"e", "n", "d", "_", "t", "s">>
k_sort == <<"s", "o", "r", "t">>
k_api_key == <<"a", "p", "i", "_", "k", "e", "y">>
k_time == <<"t", "i", "m", "e">>
k_sign == <<"s", "i", "g", "n">>

LIMIT_ORDER == 1
MARKET_ORDER == 2

\* A facade call: the method and its arguments, None for those left out.
NoArgs ==
    [symbol |-> None, side |-> None, type |-> None, quantity |-> None,
     price |-> None, fee_coin |-> None, notional |-> None, client_oid |-> None,
     order_id |-> None, page_size |-> None, page_number |-> None,
     start |-> None, end |-> None, sort |-> None, currency |-> None,
     period |-> None, depth |-> PyS(<<"step0">>)]
Method(op, args) ==
    [f \in DOMAIN NoArgs \cup {"op"} |->
        CASE f = "op" -> op
          [] f \in DOMAIN args -> args[f]
          [] OTHER -> NoArgs[f]]

MarketMethods ==
    {"symbols", "tickers", "ticker", "klines", "trades", "prices", "order_book"}
TradingMethods ==
    {"balance", "create_order", "create_limit_order", "create_market_order",
     "show_order", "cancel_order", "cancel_all_orders", "open_orders",
     "all_orders", "all_executed_orders"}

\* d with d[k] = v done when cond holds
PutIf(cond, d, k, v) == IF cond THEN Put(d, k, v) ELSE d

\* create_order with the price put into the V1 dictionary whatever the version.
create_orderPriceV1(symbol, side, type, quantity, price, fee_coin, notional, client_oid) ==
    IF version = V1
    THEN [path |-> <<"order">>,
          params |->
            PutIf(Truthy(fee_coin),
              PutIf(Truthy(price),
                <<<<k_symbol, symbol>>, <<k_side, side>>, <<k_type, type>>,
                  <<k_volume, quantity>>>>,
                k_price, price),
              k_fee_coin, fee_coin)]
    ELSE [path |-> <<"private/create-order">>,
          params |->
            PutIf(Truthy(client_oid),
              PutIf(Truthy(notional),
                PutIf(Truthy(quantity),
                  <<<<k_instrument_name, symbol>>, <<k_side, side>>,
                    <<k_type, IF type = PyInt(MARKET_ORDER)
                              THEN PyS(<<"MARKET">>) ELSE PyS(<<"LIMIT">>)>>>>,
                  k_quantity, quantity),
                k_notional, notional),
              k_client_oid, client_oid)]

\* create_order's path and parameters (lines 299 to 333)
create_order(symbol, side, type, quantity, price, fee_coin, notional, client_oid) ==
    IF version = V1
    THEN [path |-> <<"order">>,
          params |->
            PutIf(Truthy(fee_coin),
              PutIf(Truthy(price),
                <<<<k_symbol, symbol>>, <<k_side, side>>, <<k_type, type>>,
                  <<k_volume, quantity>>>>,
                k_price, price),
              k_fee_coin, fee_coin)]
    ELSE [path |-> <<"private/create-order">>,
          params |->
            PutIf(Truthy(client_oid),
              PutIf(Truthy(notional),
                PutIf(Truthy(quantity),
                  PutIf(Truthy(price),
                    <<<<k_instrument_name, symbol>>, <<k_side, side>>,
                      <<k_type, IF type = PyInt(MARKET_ORDER)
                                THEN PyS(<<"MARKET">>) ELSE PyS(<<"LIMIT">>)>>>>,
                    k_price, price),
                  k_quantity, quantity),
                k_notional, notional),
              k_client_oid, client_oid)]

\* The paging and period parameters of open_orders, all_orders and
\* all_executed_orders, added to the dictionary d of the version in use.
Paged(d, c, with_dates, with_sort) ==
    LET a == PutIf(Truthy(c.page_size), d,
                   IF version = V1 THEN k_pageSize ELSE k_page_size, c.page_size)
        b == PutIf(Truthy(c.page_number), a, k_page, c.page_number)
        e == PutIf(with_dates /\ Truthy(c.start), b,
                   IF version = V1 THEN k_startDate ELSE k_start_ts, c.start)
        f == PutIf(with_dates /\ Truthy(c.end), e,
                   IF version = V1 THEN k_endDate ELSE k_end_ts, c.end)
    IN  PutIf(with_sort /\ version = V1 /\ Truthy(c.sort), f, k_sort, c.sort)

\* {'symbol': symbol} for V1, ({'instrument_name': symbol} if symbol else {}) for V2
BySymbol(c) ==
    IF version = V1 THEN <<<<k_symbol, c.symbol>>>>
    ELSE IF Truthy(c.symbol) THEN <<<<k_instrument_name, c.symbol>>>> ELSE <<>>

\* What the trading method of call c hands to _post.
Trading(c) ==
    CASE c.op = "balance" ->
           [path |-> IF version = V1 THEN <<"account">> ELSE <<"private/get-account-summary">>,
            params |-> IF version = V2 /\ Truthy(c.currency)
                       THEN <<<<k_currency, c.currency>>>> ELSE <<>>]
      [] c.op = "create_order" ->
           create_order(c.symbol, c.side, c.type, c.quantity, c.price,
                        c.fee_coin, c.notional, c.client_oid)
      [] c.op = "create_limit_order" ->
           create_order(c.symbol, c.side, PyInt(LIMIT_ORDER), c.quantity, c.price,
                        c.fee_coin, None, c.client_oid)
      [] c.op = "create_market_order" ->
           create_order(c.symbol, c.side, PyInt(MARKET_ORDER), c.quantity, None,
                        c.fee_coin, None, c.client_oid)
      [] c.op = "show_order" ->
           [path |-> IF version = V1 THEN <<"showOrder">> ELSE <<"private/get-order-detail">>,
            params |-> IF version = V1
                       THEN <<<<k_symbol, c.symbol>>, <<k_order_id, c.order_id>>>>
                       ELSE <<<<k_order_id, c.order_id>>>>]
      [] c.op = "cancel_order" ->
           [path |-> IF version = V1 THEN <<"orders/cancel">> ELSE <<"private/cancel-order">>,
            params |-> <<<<IF version = V1 THEN k_symbol ELSE k_instrument_name, c.symbol>>,
                         <<k_order_id, c.order_id>>>>]
      [] c.op = "cancel_all_orders" ->
           [path |-> IF version = V1 THEN <<"cancelAllOrders">> ELSE <<"private/cancel-all-orders">>,
            params |-> <<<<IF version = V1 THEN k_symbol ELSE k_instrument_name, c.symbol>>>>]
      [] c.op = "open_orders" ->
           [path |-> IF version = V1 THEN <<"openOrders">> ELSE <<"private/get-open-orders">>,
            params |-> Paged(BySymbol(c), c, FALSE, FALSE)]
      [] c.op = "all_orders" ->
           [path |-> IF version = V1 THEN <<"allOrders">> ELSE <<"private/get-order-history">>,
            params |-> Paged(BySymbol(c), c, TRUE, FALSE)]
      [] c.op = "all_executed_orders" ->
           [path |-> IF version = V1 THEN <<"myTrades">> ELSE <<"private/get-trades">>,
            params |-> Paged(BySymbol(c), c, TRUE, TRUE)]

\* What the market method of call c hands to _request; no request at all
\* (path None) for klines and prices on V2.
Market(c) ==
    LET by_symbol == <<<<IF version = V1 THEN k_symbol ELSE k_instrument_name, c.symbol>>>>
    IN
    CASE c.op = "symbols" ->
           [path |-> PyS(IF version = V1 THEN <<"symbols">> ELSE <<"public/get-instruments">>),
            param |-> None]
      [] c.op = "tickers" ->
           [path |-> PyS(IF version = V1 THEN <<"ticker">> ELSE <<"public/get-ticker">>),
            param |-> None]
      [] c.op = "ticker" ->
           [path |-> PyS(IF version = V1 THEN <<"ticker">> ELSE <<"public/get-ticker">>),
            param |-> [dict |-> by_symbol]]
      [] c.op = "klines" ->
           IF version # V1 THEN [path |-> None, param |-> None]
           ELSE [path |-> PyS(<<"klines">>),
                 param |-> [dict |-> <<<<k_symbol, c.symbol>>, <<k_period, c.period>>>>]]
      [] c.op = "trades" ->
           [path |-> PyS(IF version = V1 THEN <<"trades">> ELSE <<"public/get-trades">>),
            param |-> [dict |-> by_symbol]]
      [] c.op = "prices" ->
           IF version # V1 THEN [path |-> None, param |-> None]
           ELSE [path |-> PyS(<<"ticker/price">>), param |-> None]
      [] c.op = "order_book" ->
           [path |-> PyS(IF version = V1 THEN <<"depth">> ELSE <<"public/get-book">>),
            param |-> [dict |-> Append(by_symbol,
                                       <<IF version = V1 THEN k_type ELSE k_depth, c.depth>>)]]

-----------------------------------------------------------------------------
(* _post *)

\* _post without the test of line 154.
_postUnchecked(path, params, t) ==
    IF version = V1
    THEN LET with_key == Put(params, k_api_key, key)
             with_time == Put(with_key, k_time, PyInt(t))
         IN  [path |-> path,
              param |-> [dict |-> Put(with_time, k_sign, _sign(with_time, None, None, None))],
              method |-> "post"]
    ELSE LET id == PyInt(1)
             nonce == PyInt(t)
         IN  [path |-> path,
              param |-> [envelope |-> [params |-> params,
                                       sig |-> _sign(params, path, id, nonce),
                                       api_key |-> key,
                                       method |-> path,
                                       nonce |-> nonce,
                                       id |-> id]],
              method |-> "post"]

\* The request _post(path, params) makes at clock reading t, or None when
\* the client holds no credentials.
_post(path, params, t) ==
    IF public_only THEN None
    ELSE IF version = V1
    THEN LET with_key == Put(params, k_api_key, key)
             with_time == Put(with_key, k_time, PyInt(t))
         IN  [path |-> path,
              param |-> [dict |-> Put(with_time, k_sign, _sign(with_time, None, None, None))],
              method |-> "post"]
    ELSE LET id == PyInt(1)
             nonce == PyInt(t)
         IN  [path |-> path,
              param |-> [envelope |-> [params |-> params,
                                       sig |-> _sign(params, path, id, nonce),
                                       api_key |-> key,
                                       method |-> path,
                                       nonce |-> nonce,
                                       id |-> id]],
              method |-> "post"]

\* The request the facade call c makes at clock reading t, None when it
\* returns {} without one.
Request(c, t) ==
    IF c.op \in TradingMethods
    THEN _post(Trading(c).path, Trading(c).params, t)
    ELSE IF Market(c).path = None THEN None
    ELSE [path |-> Market(c).path.str, param |-> Market(c).param, method |-> "get"]

-----------------------------------------------------------------------------
(* The client and its callers *)

RATE_LIMIT_PER_SECOND == 10

\* 1000/RATE_LIMIT_PER_SECOND, in ms
Spacing == 1000 \div RATE_LIMIT_PER_SECOND

Min(a, b) == IF a <= b THEN a ELSE b
Max(a, b) == IF a >= b THEN a ELSE b

\* ThrottleDelay with max in the place of min.
ThrottleDelayMax(clock, last) ==
    LET ms_from_last_api_call == clock - last
    IN  IF ms_from_last_api_call < Spacing
        THEN Spacing - Max(Spacing, ms_from_last_api_call)
        ELSE 0

\* delay_for_ms of lines 98 to 100 for a clock reading and a last-call
\* timestamp; 0 when _request does not sleep.
ThrottleDelay(clock, last) ==
    LET ms_from_last_api_call == clock - last
    IN  IF ms_from_last_api_call < Spacing
        THEN Spacing - Min(Spacing, ms_from_last_api_call)
        ELSE 0

Callers == 1..NCallers

KEY == PyS(<<"KEY">>)
SECRET == PyS(<<"SECRET">>)

\* The key and secret a client is constructed with.
Credentials == {<<None, None>>, <<KEY, PyS(<<>>)>>, <<KEY, SECRET>>}

NoSign == [unsigned |-> TRUE]

\* __init__(key, secret, version) over the class attributes, with callers
\* that have not called yet
New ==
    /\ given \in Credentials
    /\ version \in {V1, V2}
    /\ key = IF Truthy(given[1]) /\ Truthy(given[2]) THEN given[1] ELSE PyS(<<>>)
    /\ secret = IF Truthy(given[1]) /\ Truthy(given[2]) THEN given[2] ELSE PyS(<<>>)
    /\ public_only = ~(Truthy(given[1]) /\ Truthy(given[2]))
    /\ last_api_call = 0
    /\ response = None
    /\ error = None
    /\ now = StartTime
    /\ pc = [t \in Callers |-> "idle"]
    /\ call = [t \in Callers |-> None]
    /\ req = [t \in Callers |-> None]
    /\ r = [t \in Callers |-> None]
    /\ delay = [t \in Callers |-> 0]
    /\ wake = [t \in Callers |-> 0]
    /\ ret = [t \in Callers |-> None]
    /\ raised = [t \in Callers |-> FALSE]
    /\ stamps = [t \in Callers |-> 0]
    /\ sends = [t \in Callers |-> 0]
    /\ sent = <<>>

Init ==
    /\ New
    /\ sign_in = None
    /\ sign_out = NoSign

\* Caller t calls the facade method c.  A call that makes no request returns
\* {} at once; another reads the clock and the last-call timestamp (line 98)
\* and sleeps, or goes on to line 104.
Call(t, c) ==
    /\ pc[t] = "idle"
    /\ Len(sent) < MaxRequests
    /\ call' = [call EXCEPT ![t] = c]
    /\ IF Request(c, now) = None
       THEN /\ pc' = [pc EXCEPT ![t] = "returned"]
            /\ ret' = [ret EXCEPT ![t] = EmptyDict]
            /\ UNCHANGED <<req, delay, wake>>
       ELSE /\ req' = [req EXCEPT ![t] = Request(c, now)]
            /\ delay' = [delay EXCEPT ![t] = ThrottleDelay(now, last_api_call)]
            /\ wake' = [wake EXCEPT ![t] = now + ThrottleDelay(now, last_api_call)]
            /\ pc' = [pc EXCEPT ![t] =
                        IF now - last_api_call < Spacing THEN "sleep" ELSE "ready"]
            /\ UNCHANGED ret
    /\ UNCHANGED <<client, fields, now, r, raised, stamps, sends, sent, signing>>

\* sleep(delay_for_ms / 1000) of caller t returns: not before the delay is over.
Wake(t) ==
    /\ pc[t] = "sleep"
    /\ now >= wake[t]
    /\ pc' = [pc EXCEPT ![t] = "ready"]
    /\ UNCHANGED <<client, fields, now, call, req, r, delay, wake, ret, raised,
                   stamps, sends, sent, signing>>

\* Lines 104 to 121 for caller t: the timestamp, self.error = None, and the
\* HTTP request handed to the transport (a method other than post, delete or
\* get returns {} without one).
Dispatch(t) ==
    /\ pc[t] = "ready"
    /\ last_api_call' = now
    /\ stamps' = [stamps EXCEPT ![t] = @ + 1]
    /\ error' = None
    /\ IF req[t].method \in {"post", "delete", "get"}
       THEN /\ sends' = [sends EXCEPT ![t] = @ + 1]
            /\ sent' = Append(sent, [at |-> now, method |-> req[t].method])
            /\ pc' = [pc EXCEPT ![t] = "inflight"]
            /\ UNCHANGED ret
       ELSE /\ pc' = [pc EXCEPT ![t] = "returned"]
            /\ ret' = [ret EXCEPT ![t] = EmptyDict]
            /\ UNCHANGED <<sends, sent>>
    /\ UNCHANGED <<client, response, now, call, req, r, delay, wake, raised, signing>>

\* What the transport does with a request: it raises (no connection), or
\* answers with a status and a body.
Failure == [status_code |-> 0, text |-> "ConnectionError"]
Answers == [status_code : {200, 500}, text : Texts]

\* Respond, with the timestamp taken again when the answer is in.
RespondRestamps(t, o) ==
    /\ pc[t] = "inflight"
    /\ pc' = [pc EXCEPT ![t] = "returned"]
    /\ r' = [r EXCEPT ![t] = o]
    /\ last_api_call' = now
    /\ stamps' = [stamps EXCEPT ![t] = @ + 1]
    /\ IF o = Failure
       THEN /\ raised' = [raised EXCEPT ![t] = TRUE]
            /\ UNCHANGED <<response, error, ret>>
       ELSE /\ response' = Normalize(o, response).response
            /\ error' = Normalize(o, response).error
            /\ ret' = [ret EXCEPT ![t] = Normalize(o, response).ret]
            /\ UNCHANGED raised
    /\ UNCHANGED <<client, now, call, req, delay, wake, sends, sent, signing>>

\* The call of requests.post/delete/get of caller t ends with outcome o: an
\* exception leaves _request and the facade method, an answer r goes through
\* lines 123 to 151.
Respond(t, o) ==
    /\ pc[t] = "inflight"
    /\ pc' = [pc EXCEPT ![t] = "returned"]
    /\ r' = [r EXCEPT ![t] = o]
    /\ IF o = Failure
       THEN /\ raised' = [raised EXCEPT ![t] = TRUE]
            /\ UNCHANGED <<response, error, ret>>
       ELSE /\ response' = Normalize(o, response).response
            /\ error' = Normalize(o, response).error
            /\ ret' = [ret EXCEPT ![t] = Normalize(o, response).ret]
            /\ UNCHANGED raised
    /\ UNCHANGED <<client, last_api_call, now, call, req, delay, wake, stamps,
                   sends, sent, signing>>

\* The caller takes the result of its call and is free to call again.
Return(t) ==
    /\ pc[t] = "returned"
    /\ pc' = [pc EXCEPT ![t] = "idle"]
    /\ call' = [call EXCEPT ![t] = None]
    /\ req' = [req EXCEPT ![t] = None]
    /\ r' = [r EXCEPT ![t] = None]
    /\ delay' = [delay EXCEPT ![t] = 0]
    /\ wake' = [wake EXCEPT ![t] = 0]
    /\ ret' = [ret EXCEPT ![t] = None]
    /\ raised' = [raised EXCEPT ![t] = FALSE]
    /\ stamps' = [stamps EXCEPT ![t] = 0]
    /\ sends' = [sends EXCEPT ![t] = 0]
    /\ UNCHANGED <<client, fields, now, sent, signing>>

\* Time passes: by one of the steps, or up to the end of a caller's sleep.
Tick(steps) ==
    /\ \E d \in steps \cup {wake[t] - now : t \in {u \in Callers : pc[u] = "sleep"}} :
          /\ d > 0
          /\ now + d <= StartTime + MaxElapsed
          /\ now' = now + d
    /\ UNCHANGED <<client, fields, callers, sent, signing>>

-----------------------------------------------------------------------------
(* The calls made and the answers given *)

ETH_BTC == PyS(<<"ETH_BTC">>)
BUY == PyS(<<"BUY">>)

\* Every facade method, with the arguments that decide what it sends.
MarketCalls == {Method(op, [symbol |-> ETH_BTC, period |-> PyInt(60)]) : op \in MarketMethods}
OrderCalls ==
    {Method("create_limit_order",
            [symbol |-> ETH_BTC, side |-> BUY, quantity |-> PyInt(q),
             price |-> PyInt(p), client_oid |-> oid]) :
        q \in {0, 1}, p \in {0, 100}, oid \in {None, PyS(<<"oid7">>)}}
    \cup {Method("create_market_order",
                 [symbol |-> ETH_BTC, side |-> BUY, quantity |-> PyInt(1)]),
          Method("create_order",
                 [symbol |-> ETH_BTC, side |-> BUY, type |-> PyInt(MARKET_ORDER),
                  notional |-> PyInt(5), fee_coin |-> PyInt(1)])}
AccountCalls ==
    {Method("balance", [currency |-> cur]) : cur \in {None, PyS(<<"BTC">>)}}
    \cup {Method(op, [symbol |-> ETH_BTC, order_id |-> PyInt(7)]) :
             op \in {"show_order", "cancel_order", "cancel_all_orders"}}
    \cup {Method(op, [symbol |-> sym, page_size |-> PyInt(20), page_number |-> PyInt(2),
                      start |-> PyInt(1), sort |-> PyInt(1)]) :
             op \in {"open_orders", "all_orders", "all_executed_orders"},
             sym \in {None, ETH_BTC}}
AllCalls == MarketCalls \cup OrderCalls \cup AccountCalls

\* A market call, a call only V1 serves, and a trading call.
FewCalls ==
    {Method("symbols", NoArgs),
     Method("klines", [symbol |-> ETH_BTC, period |-> PyInt(60)]),
     Method("balance", NoArgs)}

\* The transport fails, answers a success, or answers an HTTP error.
FewOutcomes ==
    {Failure,
     [status_code |-> 200, text |-> "{\"code\":0,\"data\":0,\"result\":[]}"],
     [status_code |-> 500, text |-> "<html>"]}
AllOutcomes == {Failure} \cup Answers

\* One caller, every facade method, a clock stepping by the spacing.
Next ==
    \/ \E c \in AllCalls : Call(1, c)
    \/ Wake(1)
    \/ Dispatch(1)
    \/ \E o \in FewOutcomes : Respond(1, o)
    \/ Return(1)
    \/ Tick({Spacing})

Spec == Init /\ [][Next]_vars

\* One caller, every answer of the transport, a clock stepping short or long.
NextPipeline ==
    \/ \E c \in FewCalls : Call(1, c)
    \/ Wake(1)
    \/ Dispatch(1)
    \/ \E o \in AllOutcomes : Respond(1, o)
    \/ Return(1)
    \/ Tick({TickShort, Spacing})

SpecPipeline == Init /\ [][NextPipeline]_vars

\* Several callers use the client at once.
NextConcurrent ==
    \/ \E t \in Callers : Call(t, Method("symbols", NoArgs))
    \/ \E t \in Callers : Wake(t)
    \/ \E t \in Callers : Dispatch(t)
    \/ \E t \in Callers :
          Respond(t, [status_code |-> 200, text |-> "{\"code\":0,\"data\":0,\"result\":[]}"])
    \/ \E t \in Callers : Return(t)
    \/ Tick({TickShort, Spacing})

SpecConcurrent == Init /\ [][NextConcurrent]_vars

\* datetime.now() is the wall clock: it is set back when the host's time is
\* corrected (here: before the client's second request).
ClockSetBack ==
    /\ Len(sent) <= 1
    /\ \E d \in {TickShort, Spacing} :
          /\ now - d >= StartTime
          /\ now' = now - d
    /\ UNCHANGED <<client, fields, callers, sent, signing>>

\* One caller under a wall clock that may be set back.
NextWallClock ==
    \/ \E c \in FewCalls : Call(1, c)
    \/ Wake(1)
    \/ Dispatch(1)
    \/ \E o \in FewOutcomes : Respond(1, o)
    \/ Return(1)
    \/ Tick({TickShort, Spacing})
    \/ ClockSetBack

SpecWallClock == Init /\ [][NextWallClock]_vars

-----------------------------------------------------------------------------
(* _sign on its own *)

\* Keys and values of the dictionaries signed.
SignKeys == {k_page, k_pageSize, k_page_size, k_side, k_symbol}
SignValues == {PyInt(20), PyS(<<"B", "U", "Y">>)}

\* The dictionaries of at most MaxParams entries, in every insertion order.
Dicts ==
    UNION {{d \in [1..n -> SignKeys \X SignValues] :
               \A i, j \in 1..n : i # j => d[i][1] # d[j][1]} : n \in 0..MaxParams}

SignInputs ==
    [params : Dicts, method : {<<"private/get-order-history">>},
     id : {None, PyInt(0), PyInt(1)}, nonce : {PyInt(StartTime)}]

InitSign ==
    /\ New
    /\ sign_in \in SignInputs
    /\ sign_out = NoSign

\* _sign is called with the arguments sign_in.
Sign ==
    /\ sign_in # None
    /\ sign_out' = _sign(sign_in.params, sign_in.method, sign_in.id, sign_in.nonce)
    /\ UNCHANGED <<client, fields, now, callers, sent, sign_in>>

\* The same mapping, built with two of its entries inserted the other way round.
Reinsert ==
    /\ sign_in # None
    /\ \E i \in 1..(Len(sign_in.params) - 1) :
          sign_in' = [sign_in EXCEPT !.params =
                         [j \in 1..Len(@) |-> IF j = i THEN @[i + 1]
                                              ELSE IF j = i + 1 THEN @[i] ELSE @[j]]]
    /\ UNCHANGED <<client, fields, now, callers, sent, sign_out>>

NextSign == Sign \/ Reinsert

SpecSign == InitSign /\ [][NextSign]_vars

-----------------------------------------------------------------------------
(* Properties *)

\* C1 (SpecPipeline): calls made one after another on one client are sent at
\* least the spacing apart: the jth request is sent no sooner than
\* (j - i) * 100 ms after the ith.
C1_ThrottleLowerBound ==
    \A i, j \in 1..Len(sent) :
        i < j => sent[j].at - sent[i].at >= (j - i) * Spacing

\* Three requests, the third sent after a wait, exactly two spacings after the first.
C1_ThreeCallsWitness ==
    /\ Len(sent) = 3
    /\ sent[3].at - sent[1].at = 2 * Spacing
    /\ pc[1] = "inflight"
    /\ delay[1] > 0

\* C2 (Spec): on a client constructed without a key or without a secret,
\* every trading or account method returns {} at once, and no POST (the
\* method of every trading request) ever reaches the transport.
C2_PublicOnlyRejection ==
    ~(Truthy(given[1]) /\ Truthy(given[2])) =>
        /\ \A t \in Callers :
              (call[t] # None /\ call[t].op \in TradingMethods) =>
                  /\ pc[t] = "returned"
                  /\ ret[t] = EmptyDict
                  /\ ~raised[t]
                  /\ sends[t] = 0
                  /\ req[t] = None
        /\ \A i \in 1..Len(sent) : sent[i].method # "post"

\* A client given a key and an empty secret rejects cancel_all_orders after
\* market calls that were sent.
C2_RejectedWitness ==
    /\ given = <<KEY, PyS(<<>>)>>
    /\ call[1] # None
    /\ call[1].op = "cancel_all_orders"
    /\ pc[1] = "returned"
    /\ Len(sent) >= 2

\* C3 (Spec): every facade call ends by returning a value, with the failure
\* recorded in self.error when the transport failed; no exception leaves it.
C3_ErrorsAreReturned ==
    \A t \in Callers :
        pc[t] = "returned" =>
            /\ ~raised[t]
            /\ ret[t] # None
            /\ (r[t] = Failure => error # None)

\* C4 (SpecConcurrent): whatever the interleaving of the callers, no two
\* requests of the client are sent less than the spacing apart.
C4_ConcurrentSpacing ==
    \A i, j \in 1..Len(sent) :
        i # j => (sent[j].at - sent[i].at >= Spacing \/ sent[i].at - sent[j].at >= Spacing)

\* C5 (SpecPipeline): an HTTP 200 answer whose body has a code other than 0
\* ends in {} with self.error holding that code, and the message of the
\* version when the body has one.
C5_ExchangeErrorCarriesCode ==
    \A t \in Callers :
        (/\ pc[t] = "returned"
         /\ r[t] # None
         /\ r[t].status_code = 200
         /\ Has(json(r[t].text), "code")
         /\ json(r[t].text).obj["code"] # PyInt(0)) =>
            LET body == json(r[t].text)
                msg == response_message(version)
            IN  /\ ~raised[t]
                /\ ret[t] = EmptyDict
                /\ Has(error, "code")
                /\ error.obj["code"] = body.obj["code"]
                /\ Has(body, msg) => error.obj[msg] = body.obj[msg]

\* C6 (SpecPipeline): an HTTP 200 answer whose body has code 0 ends in the
\* value under the result field of the version (data for V1, result for V2),
\* with self.error None.
C6_SuccessPayload ==
    \A t \in Callers :
        (/\ pc[t] = "returned"
         /\ r[t] # None
         /\ r[t].status_code = 200
         /\ Has(json(r[t].text), "code")
         /\ json(r[t].text).obj["code"] = PyInt(0)) =>
            /\ ~raised[t]
            /\ error = None
            /\ ret[t] = Subscript(json(r[t].text), response_result(version))

\* The insertion orders of the mapping d.
Orders(d) ==
    {q \in [1..Len(d) -> {d[i] : i \in 1..Len(d)}] :
        \A i \in 1..Len(d) : \E j \in 1..Len(d) : q[j] = d[i]}

RECURSIVE KeyValueString(_)
KeyValueString(q) ==
    IF q = <<>> THEN <<>>
    ELSE q[1][1] \o str(q[1][2]) \o KeyValueString(Tail(q))

\* key + str(value) over the keys of d in ascending order
Ascending(d) ==
    KeyValueString(CHOOSE q \in Orders(d) :
                       \A i \in 1..(Len(q) - 1) : StrLess(q[i][1], q[i + 1][1]))

\* C7 (SpecSign): the signature of a mapping is the same for every insertion
\* order of its entries: the digest of key + str(value) over the keys in
\* ascending order followed by the secret (V1), or the HMAC under the secret
\* of method + id + api key + that string + nonce (V2).
C7_SortedKeyInvariant ==
    sign_out # NoSign =>
        /\ \A q \in Orders(sign_in.params) :
              _sign(q, sign_in.method, sign_in.id, sign_in.nonce) = sign_out
        /\ sign_out =
              IF version = V1
              THEN [sha256 |-> Ascending(sign_in.params) \o secret.str]
              ELSE [hmac_key |-> secret.str,
                    hmac_msg |-> sign_in.method
                                 \o (IF Truthy(sign_in.id) THEN str(sign_in.id) ELSE <<>>)
                                 \o key.str
                                 \o Ascending(sign_in.params)
                                 \o str(sign_in.nonce)]

\* Three entries signed, now held with pageSize before page, on a V2 client
\* with credentials.
C7_UnsortedWitness ==
    /\ sign_out # NoSign
    /\ version = V2
    /\ ~public_only
    /\ Len(sign_in.params) = 3
    /\ sign_in.params[1][1] = k_pageSize
    /\ sign_in.params[2][1] = k_page

\* Caller t has called create_limit_order(symbol, side, amount, price) with a
\* non-zero amount and price and nothing else.
LimitOrderCalled(t) ==
    /\ call[t] # None
    /\ call[t].op = "create_limit_order"
    /\ Truthy(call[t].quantity)
    /\ Truthy(call[t].price)
    /\ call[t].client_oid = None
    /\ call[t].fee_coin = None

\* C8 (Spec): on a V2 client with credentials, create_limit_order sends one
\* POST to private/create-order whose body nests instrument_name, side,
\* type LIMIT, price and quantity under params, beside api_key, id, nonce,
\* method and sig, sig being the HMAC under the secret of method + id +
\* api key + the sorted parameters + nonce of that same body.
C8_SignedEnvelope ==
    \A t \in Callers :
        (version = V2 /\ ~public_only /\ LimitOrderCalled(t)) =>
            LET e == req[t].param.envelope
                p == e.params
            IN  /\ pc[t] \in {"sleep", "ready", "inflight", "returned"}
                /\ req[t].method = "post"
                /\ req[t].path = <<"private/create-order">>
                /\ DOMAIN e = {"params", "sig", "api_key", "method", "nonce", "id"}
                /\ e.method = <<"private/create-order">>
                /\ {p[i] : i \in 1..Len(p)} =
                      {<<k_instrument_name, call[t].symbol>>, <<k_side, call[t].side>>,
                       <<k_type, PyS(<<"LIMIT">>)>>, <<k_price, call[t].price>>,
                       <<k_quantity, call[t].quantity>>}
                /\ Len(p) = 5
                /\ e.api_key = given[1]
                /\ e.id = PyInt(1)
                /\ IsInt(e.nonce)
                /\ e.sig = [hmac_key |-> given[2].str,
                            hmac_msg |-> e.method \o Digits(e.id.int) \o e.api_key.str
                                         \o k_instrument_name \o Get(p, k_instrument_name).str
                                         \o k_price \o Digits(Get(p, k_price).int)
                                         \o k_quantity \o Digits(Get(p, k_quantity).int)
                                         \o k_side \o Get(p, k_side).str
                                         \o k_type \o Get(p, k_type).str
                                         \o Digits(e.nonce.int)]
                /\ sends[t] = IF pc[t] \in {"inflight", "returned"} THEN 1 ELSE 0
                /\ pc[t] \in {"inflight", "returned"} => sent[Len(sent)].method = "post"

\* The order is with the transport, after a wait.
C8_OrderSentWitness ==
    /\ version = V2
    /\ ~public_only
    /\ LimitOrderCalled(1)
    /\ pc[1] = "inflight"
    /\ delay[1] > 0

\* C9 (SpecPipeline): a request writes the last-call timestamp once, after
\* its wait and as it hands the request to the transport, and the answer,
\* whatever it is, leaves the timestamp as it was written.
C9_TimestampOnAttempt ==
    \A t \in Callers :
        /\ pc[t] \in {"sleep", "ready"} => stamps[t] = 0
        /\ (pc[t] = "inflight" \/ (pc[t] = "returned" /\ sends[t] = 1)) =>
              /\ stamps[t] = 1
              /\ last_api_call = sent[Len(sent)].at
              /\ last_api_call >= wake[t]

\* A request that waited and failed, some time after it was sent.
C9_FailedAttemptWitness ==
    /\ pc[1] = "returned"
    /\ sends[1] = 1
    /\ delay[1] > 0
    /\ error # None
    /\ now > last_api_call

\* C10 (SpecWallClock): the delay of a request is never negative and never
\* longer than the spacing, and is 0 when the clock read is a spacing or more
\* past the last-call timestamp.
C10_DelayBounds ==
    \A t \in Callers :
        pc[t] \in {"sleep", "ready"} =>
            /\ delay[t] >= 0
            /\ delay[t] <= Spacing
            /\ (wake[t] - delay[t]) - last_api_call >= Spacing => delay[t] = 0

\* C11 (SpecPipeline): an answer whose HTTP status is not 200 ends in {} with
\* self.error holding that status under http_code; when the body decodes to a
\* dict its other entries are in self.error too, and when the body is not JSON
\* self.error holds the body's text.
C11_HttpErrorNormalization ==
    \A t \in Callers :
        (/\ pc[t] = "returned"
         /\ r[t] # None
         /\ r[t] # Failure
         /\ r[t].status_code # 200) =>
            LET body == json(r[t].text)
            IN  /\ ~raised[t]
                /\ ret[t] = EmptyDict
                /\ Has(error, "http_code")
                /\ error.obj["http_code"] = PyInt(r[t].status_code)
                /\ IsObj(body) =>
                      \A k \in ObjKeys \ {"http_code"} : error.obj[k] = body.obj[k]
                /\ IsRaised(body) =>
                      \E k \in ObjKeys : error.obj[k] = PyS(<<r[t].text>>)

\* The answer of caller t is a success: HTTP 200, a body that decodes to a
\* dict with code 0 and the result field of the version, whose value is
\* returned.
Succeeded(t) ==
    LET body == json(r[t].text)
    IN  /\ r[t].status_code = 200
        /\ Has(body, "code")
        /\ body.obj["code"] = PyInt(0)
        /\ Has(body, response_result(version))
        /\ ret[t] = body.obj[response_result(version)]

\* The call of caller t got an answer from the transport.
Answered(t) == pc[t] = "returned" /\ r[t] # None /\ r[t] # Failure

\* C12 (SpecPipeline): when a call that got an answer returns, self.error is
\* None exactly when the call returned the success payload; sending a request
\* sets self.error to None; and a call that returns before _request (a trading
\* method on a public-only client, klines on V2) leaves self.error,
\* self.response and the timestamp as they were.
C12_LastErrorInvariant ==
    /\ [](\A t \in Callers : Answered(t) => (error = None <=> Succeeded(t)))
    /\ [][\A t \in Callers :
            /\ (pc[t] = "ready" /\ pc'[t] = "inflight") => error' = None
            /\ (pc[t] = "idle" /\ pc'[t] = "returned") => UNCHANGED fields]_vars

====
